---- MODULE Spec2Model ----
(***************************************************************************)
(* NetPulse-Pro monitoring engine.                                         *)
(*                                                                         *)
(* The repository ships two builds of the App component:                   *)
(*   "guarded" : src/App.tsx         (runMonitoringTick: in-progress guard,*)
(*               batches of 5, one setNodes for the whole cycle)           *)
(*   "legacy"  : src/unnamed/part_003 (updateNodeData: no guard, one probe *)
(*               and one setNodes per target, downtime incident log)       *)
(* The model runs either build: Init picks `variant` and every step is the *)
(* translation of the handler of that build.                               *)
(***************************************************************************)
EXTENDS Integers, Sequences, FiniteSets, TLC

\* ------------------------------------------------------------------ bounds
MaxTicks == 2          \* timer ticks in one run
MaxUserOps == 1        \* rename / toggle / remove clicks in one run
MaxFolds == 4          \* results folded into the target of SpecFold
RetentionMinutes == 1  \* settings.timeframe, scaled so that the cap is reached

\* the ids Math.random hands out in one run, in the order it hands them out
TargetIds == {1, 2}
MaxIds == Cardinality(TargetIds)

Addresses == <<"10.0.0.1", "10.0.0.2">>
\* what parseBulkInput hands to handleAddIPs: non-empty, no duplicates
AddressLists == {<<Addresses[1]>>, <<Addresses[1], Addresses[2]>>}
Names == {"core-router"}
RTTs == {40, 100, 150, 200}
EventIds == {"e1", "e2"}
\* the round-trip times and incident ids drawn inside a monitoring cycle
CycleRTTs == {40}
CycleEventIds == {"e1"}

VARIABLES
    variant,        \* which build of App is running
    settings,       \* useState<MonitorSettings>
    nodes,          \* useState<IPNode[]>: the registry
    nodesRef,       \* the node list the timer callback reads
    isUpdatingRef,  \* useRef(false): the cycle-in-progress guard
    cycles,         \* the monitoring cycles suspended at an await
    now,            \* Date.now()
    nextId,         \* ids handed out so far (ids are fresh random strings)
    ticks,          \* timer ticks fired so far
    cycleCount,     \* cycles started so far
    userOps,        \* rename / toggle / remove clicks so far
    folded,         \* history variable: id -> every result folded into it
    probed,         \* history variable: cycle -> ids of its snapshot
    applied,        \* history variable: cycle -> ids carrying its result
    lastCommit,     \* history variable: what the last setNodes commit did
    traces,         \* the handleTraceroute calls suspended at their await
    lastTrace,      \* history variable: what the last step of a trace did
    argument,       \* the argument of the utility call being evaluated
    returned        \* what that call returned, NoReturn before it returns

vars == <<variant, settings, nodes, nodesRef, isUpdatingRef, cycles, now,
          nextId, ticks, cycleCount, userOps, folded, probed, applied,
          lastCommit, traces, lastTrace, argument, returned>>

\* ------------------------------------------------------------ data model
Infinity == 1000000

batchSize == 5

HistoryLimit == 10000

DefaultSettings(v) ==
    [interval |-> 30,  \* seconds; with RetentionMinutes = 1 the cap is 2
     warningThreshold |-> IF v = "guarded" THEN 150 ELSE 100,
     timeframe |-> RetentionMinutes]

Min(a, b) == IF a <= b THEN a ELSE b

\* useMemo maxDataPoints. The guarded build floors the quotient; the legacy
\* build caps it at 10000 and leaves the fraction to slice(), which truncates.
maxDataPoints ==
    IF variant = "guarded"
    THEN (settings.timeframe * 60) \div settings.interval
    ELSE Min((settings.timeframe * 60) \div settings.interval, HistoryLimit)

\* handleAddIPs: the object literal of a new IPNode
NewNode(id, ip) ==
    [id |-> id, ip |-> ip, history |-> <<>>, downtimeEvents |-> <<>>,
     minRtt |-> Infinity, maxRtt |-> 0, avgRtt |-> [num |-> 0, den |-> 1],
     curRtt |-> 0, sent |-> 0, received |-> 0, lost |-> 0,
     packetLoss |-> [num |-> 0, den |-> 1], isMonitoring |-> TRUE]

Ids(ns) == {ns[k].id : k \in 1..Len(ns)}

NodeOf(ns, id) == ns[CHOOSE k \in 1..Len(ns) : ns[k].id = id]

\* { ...rec, field: value }
Spread(rec, field, value) == (field :> value) @@ rec

\* a slice that keeps the first n elements instead: slice(0, n)
SliceFirst(s, n) ==
    IF n >= Len(s) THEN s ELSE SubSeq(s, 1, n)

\* Array.prototype.slice(-n): the last n elements; slice(-0) is slice(0)
SliceLast(s, n) ==
    IF n = 0 \/ n >= Len(s) THEN s ELSE SubSeq(s, Len(s) - n + 1, Len(s))

\* history.filter(h => h.status !== 'dead')
aliveHistory(h) == SelectSeq(h, LAMBDA r : r.status # "dead")

RttSet(h) == {h[k].rtt : k \in 1..Len(h)}

MathMin(S) == CHOOSE x \in S : \A y \in S : x <= y

MathMax(S) == CHOOSE x \in S : \A y \in S : x >= y

RECURSIVE SumRtt(_)
SumRtt(h) == IF h = <<>> THEN 0 ELSE h[1].rtt + SumRtt(Tail(h))

\* !lastEvent.endTime: the field is absent, or holds a falsy number
IsOpen(e) == "endTime" \notin DOMAIN e \/ e.endTime = 0


\* --------------------------------------------------------- probe executor
Fault == [rtt |-> 0, status |-> "fault"]

\* an invoke whose promise never settles: it hands nothing back
InvokeHangs(rtts) == {}

\* what ipcRenderer.invoke('node:ping') can hand back: a measurement, an
\* unreachable target, or a rejected call
Outcomes(rtts) ==
    {[rtt |-> r, status |-> "alive"] : r \in rtts}
        \cup {[rtt |-> 0, status |-> "dead"], Fault}

\* getPingResult of the guarded build: a rejected call is caught and reported
\* as a dead probe
getPingResult(raw, ts) ==
    IF raw.status = "fault"
    THEN [timestamp |-> ts, rtt |-> 0, status |-> "dead"]
    ELSE [timestamp |-> ts, rtt |-> raw.rtt,
          status |-> IF raw.status = "dead" THEN "dead"
                     ELSE IF raw.rtt > settings.warningThreshold
                          THEN "unstable" ELSE "alive"]

\* getPingResult of the legacy build (defined where the call resolves)
getPingResultLegacy(raw, ts) ==
    [timestamp |-> ts, rtt |-> raw.rtt,
     status |-> IF raw.status = "dead" THEN "dead"
                ELSE IF raw.rtt > settings.warningThreshold
                     THEN "unstable" ELSE "alive"]

\* ------------------------------------------------------------ aggregation
\* a fold that counts every probe as received
CountersAfterAlwaysReceived(node, isDead) ==
    [sent |-> node.sent + 1,
     received |-> node.received + 1,
     lost |-> node.lost + (IF isDead THEN 1 ELSE 0)]

\* sent: node.sent + 1, received: ... + (isDead ? 0 : 1), lost: ... + (isDead ? 1 : 0)
CountersAfter(node, isDead) ==
    [sent |-> node.sent + 1,
     received |-> node.received + (IF isDead THEN 0 ELSE 1),
     lost |-> node.lost + (IF isDead THEN 1 ELSE 0)]

\* a percentage taken over the counter as it stood before the fold
packetLossStale(lost, sent) == [num |-> lost * 100, den |-> sent - 1]

\* packetLoss: (lost / sent) * 100 over the counters after the fold
packetLoss(lost, sent) == [num |-> lost * 100, den |-> sent]

\* an updater that counts the probe twice and stores the result twice
FoldGuardedTwice(node, result, cap) ==
    LET isDead == result.status = "dead"
    IN [node EXCEPT
            !.history = Append(Append(node.history, result), result),
            !.curRtt = IF isDead THEN 0 ELSE result.rtt,
            !.sent = node.sent + 2,
            !.received = node.received + (IF isDead THEN 0 ELSE 2),
            !.lost = node.lost + (IF isDead THEN 2 ELSE 0)]

\* The body of the setNodes updater of runMonitoringTick for one node that
\* has a result.
FoldGuarded(node, result, cap) ==
    LET newHistory == SliceLast(Append(node.history, result), cap)
        isDead == result.status = "dead"
        alive == aliveHistory(newHistory)
        minRtt == IF Len(alive) > 0 THEN MathMin(RttSet(alive)) ELSE node.minRtt
        maxRtt == IF Len(alive) > 0 THEN MathMax(RttSet(alive)) ELSE node.maxRtt
        avgRtt == IF Len(alive) > 0
                  THEN [num |-> SumRtt(alive), den |-> Len(alive)]
                  ELSE [num |-> 0, den |-> 1]
        counters == CountersAfter(node, isDead)
    IN [node EXCEPT
            !.history = newHistory,
            !.curRtt = IF isDead THEN 0 ELSE result.rtt,
            !.sent = counters.sent,
            !.received = counters.received,
            !.lost = counters.lost,
            !.packetLoss = packetLoss(node.lost + (IF isDead THEN 1 ELSE 0),
                                      node.sent + 1),
            !.minRtt = minRtt,
            !.maxRtt = maxRtt,
            !.avgRtt = avgRtt]

\* an incident log that opens a new incident on every dead result
DowntimeAlwaysPush(events, result, eid) ==
    Append(events,
           [id |-> eid, startTime |-> result.timestamp, lostCount |-> 1])

\* The incident log after a dead result: extend the open incident or push a
\* new one whose id is a fresh random string.
DowntimeAfterDead(events, result, eid) ==
    IF Len(events) > 0 /\ IsOpen(events[Len(events)])
    THEN [events EXCEPT ![Len(events)] =
              Spread(@, "lostCount", @.lostCount + 1)]
    ELSE Append(events,
                [id |-> eid, startTime |-> result.timestamp, lostCount |-> 1])

\* The incident log after a result that is not dead: close the open incident.
DowntimeAfterAlive(events, result) ==
    IF Len(events) > 0 /\ IsOpen(events[Len(events)])
    THEN [events EXCEPT ![Len(events)] =
              Spread(@, "endTime", result.timestamp)]
    ELSE events

\* The body of the setNodes updater of updateNodeData for the probed node.
FoldLegacy(n, result, cap, eid) ==
    LET newHistory == SliceLast(Append(n.history, result), cap)
        alive == aliveHistory(newHistory)
    IN IF result.status = "dead"
       THEN [n EXCEPT
                !.history = newHistory,
                !.downtimeEvents = DowntimeAfterDead(n.downtimeEvents, result, eid),
                !.curRtt = 0,
                !.sent = n.sent + 1,
                !.lost = n.lost + 1,
                !.packetLoss = packetLoss(n.lost + 1, n.sent + 1)]
       ELSE [n EXCEPT
                !.history = newHistory,
                !.downtimeEvents = DowntimeAfterAlive(n.downtimeEvents, result),
                !.minRtt = IF Len(alive) > 0 THEN MathMin(RttSet(alive)) ELSE n.minRtt,
                !.avgRtt = IF Len(alive) > 0
                           THEN [num |-> SumRtt(alive), den |-> Len(alive)]
                           ELSE [num |-> 0, den |-> 1],
                !.curRtt = result.rtt,
                !.sent = n.sent + 1,
                !.received = n.received + 1,
                !.packetLoss = packetLoss(n.lost, n.sent + 1)]

\* a commit that upserts: a result whose id is not in the registry creates
\* the node again
CommitUpsert(currentNodes, resultsMap, cap) ==
    LET gone == DOMAIN resultsMap \ Ids(currentNodes)
        kept == [k \in 1..Len(currentNodes) |->
                    IF currentNodes[k].id \in DOMAIN resultsMap
                    THEN FoldGuarded(currentNodes[k],
                                     resultsMap[currentNodes[k].id], cap)
                    ELSE currentNodes[k]]
    IN IF gone = {} THEN kept
       ELSE LET id == CHOOSE x \in gone : TRUE
            IN Append(kept, FoldGuarded(NewNode(id, Addresses[1]),
                                        resultsMap[id], cap))

\* setNodes(currentNodes => currentNodes.map(...)) of runMonitoringTick
CommitGuarded(currentNodes, resultsMap, cap) ==
    [k \in 1..Len(currentNodes) |->
        IF currentNodes[k].id \in DOMAIN resultsMap
        THEN FoldGuarded(currentNodes[k], resultsMap[currentNodes[k].id], cap)
        ELSE currentNodes[k]]

\* an updater that builds the new node from the fields of a fresh IPNode
\* only, without the spread of the current one
CommitLegacyOwnFields(currentNodes, id, result, cap, eid) ==
    [k \in 1..Len(currentNodes) |->
        IF currentNodes[k].id # id THEN currentNodes[k]
        ELSE LET n == FoldLegacy(currentNodes[k], result, cap, eid)
             IN [f \in DOMAIN NewNode(0, "") |-> n[f]]]

\* setNodes(currentNodes => currentNodes.map(...)) of updateNodeData
CommitLegacy(currentNodes, id, result, cap, eid) ==
    [k \in 1..Len(currentNodes) |->
        IF currentNodes[k].id # id THEN currentNodes[k]
        ELSE FoldLegacy(currentNodes[k], result, cap, eid)]

\* ------------------------------------------------------- registry handlers
\* onUpdateName: ns.map(n => n.id === id ? {...n, customName: name} : n)
onUpdateName(ns, id, name) ==
    [k \in 1..Len(ns) |->
        IF ns[k].id = id THEN Spread(ns[k], "customName", name) ELSE ns[k]]

\* a toggle that only ever pauses
onPauseMonitoring(ns, id) ==
    [k \in 1..Len(ns) |->
        IF ns[k].id = id THEN [ns[k] EXCEPT !.isMonitoring = FALSE] ELSE ns[k]]

\* onToggleMonitoring: ns.map(n => n.id === id ? {...n, isMonitoring: !n.isMonitoring} : n)
onToggleMonitoring(ns, id) ==
    [k \in 1..Len(ns) |->
        IF ns[k].id = id THEN [ns[k] EXCEPT !.isMonitoring = ~@] ELSE ns[k]]

\* onRemove: ns.filter(n => n.id !== id)
onRemove(ns, id) == SelectSeq(ns, LAMBDA n : n.id # id)

\* an add that leaves out the addresses the registry already holds
handleAddIPsDedup(prev, targets, firstId) ==
    LET fresh == SelectSeq(targets,
                    LAMBDA ip : \A j \in 1..Len(prev) : prev[j].ip # ip)
    IN prev \o [k \in 1..Len(fresh) |->
                    [id |-> firstId + k - 1, ip |-> fresh[k],
                     history |-> <<>>, downtimeEvents |-> <<>>,
                     minRtt |-> Infinity, maxRtt |-> 0,
                     avgRtt |-> [num |-> 0, den |-> 1], curRtt |-> 0,
                     sent |-> 0, received |-> 0, lost |-> 0,
                     packetLoss |-> [num |-> 0, den |-> 1],
                     isMonitoring |-> TRUE]]

\* handleAddIPs: [...prev, ...newNodes], ids fresh
handleAddIPs(prev, targets, firstId) ==
    prev \o [k \in 1..Len(targets) |-> NewNode(firstId + k - 1, targets[k])]

\* a list that is written once, when the first targets arrive, and never
\* refreshed after that
ViewOnce(ns) ==
    IF nodesRef # <<>> THEN nodesRef
    ELSE [k \in 1..Len(ns) |->
            [id |-> ns[k].id, ip |-> ns[k].ip,
             isMonitoring |-> ns[k].isMonitoring]]

\* what the timer callback reads of a node: id, ip, isMonitoring
View(ns) ==
    [k \in 1..Len(ns) |->
        [id |-> ns[k].id, ip |-> ns[k].ip, isMonitoring |-> ns[k].isMonitoring]]

\* a selection that takes every node, paused or not
everyNode(ns) == [k \in 1..Len(ns) |-> ns[k].id]

\* nodes.filter(n => n.isMonitoring), as ids
monitoringNodes(ns) ==
    LET m == SelectSeq(ns, LAMBDA n : n.isMonitoring)
    IN [k \in 1..Len(m) |-> m[k].id]

\* the whole rest of the list at once
BatchAll(targets, i) ==
    {targets[k] : k \in {j \in 1..Len(targets) : j >= i}}

\* monitoringNodes.slice(i, i + batchSize), as a set of ids (i counts from 1)
Batch(targets, i) ==
    {targets[k] : k \in {j \in 1..Len(targets) : j >= i /\ j < i + batchSize}}


\* ------------------------------------------------------------------- state
NoArgument == <<>>

NoReturn == [fn |-> "none"]

NoTrace == [id |-> 0, op |-> "none", during |-> {}]

\* the cycles in flight that have target id in their snapshot and have not
\* committed its result yet
CyclesOver(id) ==
    {cycles[c].cyc : c \in {d \in 1..Len(cycles) :
        \E k \in 1..Len(cycles[d].targets) :
            /\ cycles[d].targets[k] = id
            /\ variant = "legacy" => k >= cycles[d].i}}

Init ==
    /\ variant \in {"guarded", "legacy"}
    /\ settings = DefaultSettings(variant)
    /\ nodes = <<>>
    /\ nodesRef = <<>>
    /\ isUpdatingRef = FALSE
    /\ cycles = <<>>
    /\ now = 1
    /\ nextId = 0
    /\ ticks = 0
    /\ cycleCount = 0
    /\ userOps = 0
    /\ folded = [id \in TargetIds |-> <<>>]
    /\ probed = [c \in 1..MaxTicks |-> {}]
    /\ applied = [c \in 1..MaxTicks |-> {}]
    /\ lastCommit = [cyc |-> 0, ids |-> {}, stale |-> {}, paused |-> {},
                     bystanders |-> {}]
    /\ traces = <<>>
    /\ lastTrace = NoTrace
    /\ argument = NoArgument
    /\ returned = NoReturn

RemoveAt(s, k) == SubSeq(s, 1, k - 1) \o SubSeq(s, k + 1, Len(s))

\* history variables after a commit of cycle cyc carrying `results` (id -> result)
Record(cyc, results) ==
    LET hit == DOMAIN results \cap Ids(nodes)
    IN /\ folded' = [id \in DOMAIN folded |->
                        IF id \in hit THEN Append(folded[id], results[id])
                        ELSE folded[id]]
       /\ applied' = [applied EXCEPT ![cyc] = @ \cup hit]
       /\ lastCommit' = [cyc |-> cyc, ids |-> DOMAIN results,
                         stale |-> DOMAIN results \ Ids(nodes),
                         paused |-> {id \in hit :
                                        ~NodeOf(nodes, id).isMonitoring},
                         bystanders |-> Ids(nodes) \ DOMAIN results]

\* ----------------------------------------------------------------- actions
\* A click or key handler calls setNodes; React renders and runs
\* useEffect(() => { nodesRef.current = nodes }, [nodes]) before the event is
\* over (in the legacy build: re-creates updateNodeData and registers the
\* timer again), so the list the timer reads is refreshed within the handler.
\* A commit changes nothing of what the timer reads of that list.

\* handleAddIPs
AddIPs ==
    \E targets \in AddressLists :
        /\ nextId + Len(targets) <= MaxIds
        /\ nodes' = handleAddIPs(nodes, targets, nextId + 1)
        /\ nodesRef' = View(nodes')
        /\ nextId' = nextId + Len(targets)
        /\ UNCHANGED <<variant, settings, isUpdatingRef, cycles, now,
                       ticks, cycleCount, userOps, folded, probed, applied,
                       lastCommit>>
        /\ UNCHANGED <<traces, lastTrace, argument, returned>>

Rename ==
    \E id \in TargetIds, name \in Names :
        /\ userOps < MaxUserOps
        /\ userOps' = userOps + 1
        /\ nodes' = onUpdateName(nodes, id, name)
        /\ nodesRef' = View(nodes')
        /\ UNCHANGED <<variant, settings, isUpdatingRef, cycles, now,
                       nextId, ticks, cycleCount, folded, probed, applied,
                       lastCommit>>
        /\ UNCHANGED <<traces, lastTrace, argument, returned>>

Toggle ==
    \E id \in TargetIds :
        /\ userOps < MaxUserOps
        /\ userOps' = userOps + 1
        /\ nodes' = onToggleMonitoring(nodes, id)
        /\ nodesRef' = View(nodes')
        /\ UNCHANGED <<variant, settings, isUpdatingRef, cycles, now,
                       nextId, ticks, cycleCount, folded, probed, applied,
                       lastCommit>>
        /\ UNCHANGED <<traces, lastTrace, argument, returned>>

Remove ==
    \E id \in TargetIds :
        /\ userOps < MaxUserOps
        /\ userOps' = userOps + 1
        /\ nodes' = onRemove(nodes, id)
        /\ nodesRef' = View(nodes')
        /\ UNCHANGED <<variant, settings, isUpdatingRef, cycles, now,
                       nextId, ticks, cycleCount, folded, probed, applied,
                       lastCommit>>
        /\ UNCHANGED <<traces, lastTrace, argument, returned>>

\* a tick that looks at the target list only, not at the guard
TickStartsWhileBusy == Len(monitoringNodes(nodesRef)) # 0

\* whether a tick of runMonitoringTick gets past its two early returns
TickStarts ==
    /\ ~(isUpdatingRef \/ Len(nodesRef) = 0)
    /\ Len(monitoringNodes(nodesRef)) # 0

\* the timer fires runMonitoringTick, which runs up to its first await
runMonitoringTick ==
    /\ variant = "guarded"
    /\ ticks < MaxTicks
    /\ ticks' = ticks + 1
    /\ IF TickStarts
       THEN LET targets == monitoringNodes(nodesRef)
            IN /\ isUpdatingRef' = TRUE
               /\ cycleCount' = cycleCount + 1
               /\ cycles' = Append(cycles,
                      [cyc |-> cycleCount + 1, targets |-> targets, i |-> 1,
                       outstanding |-> Batch(targets, 1), resultsMap |-> <<>>])
               /\ probed' = [probed EXCEPT ![cycleCount + 1] =
                                {targets[k] : k \in 1..Len(targets)}]
       ELSE UNCHANGED <<isUpdatingRef, cycleCount, cycles, probed>>
    /\ UNCHANGED <<variant, settings, nodes, nodesRef, now, nextId, userOps,
                   folded, applied, lastCommit>>
    /\ UNCHANGED <<traces, lastTrace, argument, returned>>

\* a runMonitoringTick that never released the guard
GuardLeftSet == TRUE

\* finally { isUpdatingRef.current = false }: the guard after the try block,
\* whether the block ran to its end or threw
FinallyGuard == FALSE

\* an updater that starts from the nodes of the cycle's snapshot instead
SnapshotNodes(cy) ==
    SelectSeq(nodes, LAMBDA n :
        \E k \in 1..Len(cy.targets) : cy.targets[k] = n.id)

\* setNodes(currentNodes => ...): React hands the updater the state as it is
\* when the update is applied, not as it was when the tick started
LatestNodes(cy) == nodes

\* one getPingResult of the current batch resolves; when it is the last of
\* the batch, Promise.all resolves and the tick runs on: next batch, or the
\* setNodes commit and the finally block
ProbeResolves ==
    /\ variant = "guarded"
    /\ \E c \in 1..Len(cycles), raw \in Outcomes(CycleRTTs) :
        \E id \in cycles[c].outstanding :
          LET cy == cycles[c]
              resultsMap == (id :> getPingResult(raw, now)) @@ cy.resultsMap
              left == cy.outstanding \ {id}
              i == cy.i + batchSize
          IN /\ now' = now + 1
             /\ IF left # {}
                THEN /\ cycles' = [cycles EXCEPT ![c] =
                            [cy EXCEPT !.outstanding = left,
                                       !.resultsMap = resultsMap]]
                     /\ UNCHANGED <<nodes, isUpdatingRef, folded, applied,
                                    lastCommit>>
                ELSE IF i <= Len(cy.targets)
                THEN /\ cycles' = [cycles EXCEPT ![c] =
                            [cy EXCEPT !.i = i,
                                       !.outstanding = Batch(cy.targets, i),
                                       !.resultsMap = resultsMap]]
                     /\ UNCHANGED <<nodes, isUpdatingRef, folded, applied,
                                    lastCommit>>
                ELSE /\ nodes' = CommitGuarded(LatestNodes(cy), resultsMap,
                                            maxDataPoints)
                     /\ Record(cy.cyc, resultsMap)
                     /\ isUpdatingRef' = FinallyGuard
                     /\ cycles' = RemoveAt(cycles, c)
    /\ UNCHANGED <<variant, settings, nodesRef, nextId, ticks, cycleCount,
                   userOps, probed>>
    /\ UNCHANGED <<traces, lastTrace, argument, returned>>

\* the timer fires updateNodeData, which runs up to its first await
updateNodeData ==
    /\ variant = "legacy"
    /\ ticks < MaxTicks
    /\ ticks' = ticks + 1
    /\ LET targets == monitoringNodes(nodesRef)
       IN IF Len(targets) # 0
          THEN /\ cycleCount' = cycleCount + 1
               /\ cycles' = Append(cycles,
                      [cyc |-> cycleCount + 1, targets |-> targets, i |-> 1,
                       outstanding |-> {targets[1]}, resultsMap |-> <<>>])
               /\ probed' = [probed EXCEPT ![cycleCount + 1] =
                                {targets[k] : k \in 1..Len(targets)}]
          ELSE UNCHANGED <<cycleCount, cycles, probed>>
    /\ UNCHANGED <<variant, settings, nodes, nodesRef, isUpdatingRef, now,
                   nextId, userOps, folded, applied, lastCommit>>
    /\ UNCHANGED <<traces, lastTrace, argument, returned>>

\* the awaited getPingResult of a legacy cycle resolves: setNodes for that
\* node, then the loop goes on to the next monitored node of its closure
ProbeResolvesLegacy ==
    /\ variant = "legacy"
    /\ \E c \in 1..Len(cycles), raw \in Outcomes(CycleRTTs) \ {Fault},
          eid \in CycleEventIds :
          LET cy == cycles[c]
              id == cy.targets[cy.i]
              result == getPingResultLegacy(raw, now)
          IN /\ now' = now + 1
             /\ nodes' = CommitLegacy(nodes, id, result, maxDataPoints, eid)
             /\ Record(cy.cyc, id :> result)
             /\ IF cy.i < Len(cy.targets)
                THEN cycles' = [cycles EXCEPT ![c] =
                            [cy EXCEPT !.i = cy.i + 1,
                                       !.outstanding = {cy.targets[cy.i + 1]}]]
                ELSE cycles' = RemoveAt(cycles, c)
    /\ UNCHANGED <<variant, settings, nodesRef, isUpdatingRef, nextId, ticks,
                   cycleCount, userOps, probed>>
    /\ UNCHANGED <<traces, lastTrace, argument, returned>>

\* the awaited ipcRenderer.invoke rejects: the legacy getPingResult has no
\* try/catch, so updateNodeData ends there
ProbeRejectsLegacy ==
    /\ variant = "legacy"
    /\ \E c \in 1..Len(cycles) :
          cycles' = RemoveAt(cycles, c)
    /\ UNCHANGED <<variant, settings, nodes, nodesRef, isUpdatingRef, now,
                   nextId, ticks, cycleCount, userOps, folded, probed, applied,
                   lastCommit>>
    /\ UNCHANGED <<traces, lastTrace, argument, returned>>

Next ==
    \/ AddIPs
    \/ Rename
    \/ Toggle
    \/ Remove
    \/ runMonitoringTick
    \/ ProbeResolves
    \/ updateNodeData
    \/ ProbeResolvesLegacy
    \/ ProbeRejectsLegacy

Spec == Init /\ [][Next]_vars


\* ----------------------------------------------- liveness specification
\* The guarded build with a timer that keeps firing and probe calls that
\* always return: setInterval(runMonitoringTick, ...) and the promises of
\* getPingResult, which resolve on every path.
InitLive ==
    /\ variant = "guarded"
    /\ settings = DefaultSettings(variant)
    /\ nodes = <<>>
    /\ nodesRef = <<>>
    /\ isUpdatingRef = FALSE
    /\ cycles = <<>>
    /\ now = 1
    /\ nextId = 0
    /\ ticks = MaxTicks - 2
    /\ cycleCount = 0
    /\ userOps = MaxUserOps - 1
    /\ folded = [id \in TargetIds |-> <<>>]
    /\ probed = [c \in 1..MaxTicks |-> {}]
    /\ applied = [c \in 1..MaxTicks |-> {}]
    /\ lastCommit = [cyc |-> 0, ids |-> {}, stale |-> {}, paused |-> {},
                     bystanders |-> {}]
    /\ traces = <<>>
    /\ lastTrace = NoTrace
    /\ argument = NoArgument
    /\ returned = NoReturn

NextLive ==
    \/ AddIPs
    \/ Rename
    \/ Toggle
    \/ Remove
    \/ runMonitoringTick
    \/ ProbeResolves

SpecLive ==
    /\ InitLive
    /\ [][NextLive]_vars
    /\ WF_vars(runMonitoringTick)
    /\ WF_vars(ProbeResolves)

\* ----------------------------------------------------- fold specification
\* One freshly added target and the stream of results its commits fold into
\* it: each step is one monitoring cycle over that target, from the probe's
\* result to the setNodes updater.
InitFold ==
    /\ variant \in {"guarded", "legacy"}
    /\ settings = DefaultSettings(variant)
    /\ nodes = handleAddIPs(<<>>, <<Addresses[1]>>, 1)
    /\ nodesRef = View(nodes)
    /\ isUpdatingRef = FALSE
    /\ cycles = <<>>
    /\ now = 1
    /\ nextId = 1
    /\ ticks = 0
    /\ cycleCount = 0
    /\ userOps = 0
    /\ folded = [id \in TargetIds |-> <<>>]
    /\ probed = [c \in 1..MaxTicks |-> {}]
    /\ applied = [c \in 1..MaxTicks |-> {}]
    /\ lastCommit = [cyc |-> 0, ids |-> {}, stale |-> {}, paused |-> {},
                     bystanders |-> {}]
    /\ traces = <<>>
    /\ lastTrace = NoTrace
    /\ argument = NoArgument
    /\ returned = NoReturn

FoldResultGuarded ==
    /\ variant = "guarded"
    /\ now <= MaxFolds
    /\ \E raw \in Outcomes(RTTs) :
          LET resultsMap == 1 :> getPingResult(raw, now)
          IN /\ nodes' = CommitGuarded(nodes, resultsMap, maxDataPoints)
             /\ Record(1, resultsMap)
    /\ now' = now + 1
    /\ UNCHANGED <<variant, settings, nodesRef, isUpdatingRef, cycles, nextId,
                   ticks, cycleCount, userOps, probed>>
    /\ UNCHANGED <<traces, lastTrace, argument, returned>>

FoldResultLegacy ==
    /\ variant = "legacy"
    /\ now <= MaxFolds
    /\ \E raw \in Outcomes(RTTs) \ {Fault}, eid \in EventIds :
          LET result == getPingResultLegacy(raw, now)
          IN /\ nodes' = CommitLegacy(nodes, 1, result, maxDataPoints, eid)
             /\ Record(1, 1 :> result)
    /\ now' = now + 1
    /\ UNCHANGED <<variant, settings, nodesRef, isUpdatingRef, cycles, nextId,
                   ticks, cycleCount, userOps, probed>>
    /\ UNCHANGED <<traces, lastTrace, argument, returned>>

NextFold == FoldResultGuarded \/ FoldResultLegacy

SpecFold == InitFold /\ [][NextFold]_vars


\* ------------------------------------------------- settings specification
\* The legacy build's settings controls next to the result stream of one
\* target; the guarded build never calls setSettings.

\* the options of the Window select, scaled like RetentionMinutes
Timeframes == {RetentionMinutes, 2 * RetentionMinutes}

\* positions of the Ping Interval slider, in seconds
Intervals == {30, 60}

\* onChange of the Window select: setSettings({...settings, timeframe})
setTimeframe ==
    /\ variant = "legacy"
    /\ \E t \in Timeframes \ {settings.timeframe} :
          settings' = [settings EXCEPT !.timeframe = t]
    /\ UNCHANGED <<variant, nodes, nodesRef, isUpdatingRef, cycles, now,
                   nextId, ticks, cycleCount, userOps, folded, probed, applied,
                   lastCommit, traces, lastTrace, argument, returned>>

\* onChange of the Ping Interval slider: setSettings({...settings, interval})
setIntervalSeconds ==
    /\ variant = "legacy"
    /\ \E i \in Intervals \ {settings.interval} :
          settings' = [settings EXCEPT !.interval = i]
    /\ UNCHANGED <<variant, nodes, nodesRef, isUpdatingRef, cycles, now,
                   nextId, ticks, cycleCount, userOps, folded, probed, applied,
                   lastCommit, traces, lastTrace, argument, returned>>

InitSettings == InitFold /\ variant = "legacy"

NextSettings == FoldResultLegacy \/ setTimeframe \/ setIntervalSeconds

SpecSettings == InitSettings /\ [][NextSettings]_vars


\* ------------------------------------------------- batching specification
\* One more active target than a batch holds, added while the timer was
\* already running, and the one cycle that the next tick starts over them.
BatchAddresses ==
    <<"10.0.0.1", "10.0.0.2", "10.0.0.3", "10.0.0.4", "10.0.0.5", "10.0.0.6">>

InitBatch ==
    /\ variant = "guarded"
    /\ settings = DefaultSettings(variant)
    /\ nodes = handleAddIPs(<<>>, BatchAddresses, 1)
    /\ nodesRef = View(nodes)
    /\ isUpdatingRef = FALSE
    /\ cycles = <<>>
    /\ now = 1
    /\ nextId = Len(BatchAddresses)
    /\ ticks = MaxTicks - 1
    /\ cycleCount = 0
    /\ userOps = 0
    /\ folded = [id \in 1..Len(BatchAddresses) |-> <<>>]
    /\ probed = [c \in 1..MaxTicks |-> {}]
    /\ applied = [c \in 1..MaxTicks |-> {}]
    /\ lastCommit = [cyc |-> 0, ids |-> {}, stale |-> {}, paused |-> {},
                     bystanders |-> {}]
    /\ traces = <<>>
    /\ lastTrace = NoTrace
    /\ argument = NoArgument
    /\ returned = NoReturn

NextBatch == runMonitoringTick \/ ProbeResolves

SpecBatch == InitBatch /\ [][NextBatch]_vars


\* ------------------------------------------------------------- traceroute
\* Only the legacy build wires the trace buttons to handleTraceroute; the
\* guarded build passes onTrace={() => {}}, so no trace ever starts there.

\* the lines of tracert's output, each with what the hop regex finds in it
HopLine == [matches |-> TRUE, number |-> 1, ms |-> 12, ip |-> "10.0.0.254"]

BannerLine == [matches |-> FALSE, number |-> 0, ms |-> 0, ip |-> ""]

TracertOutputs == {<<BannerLine>>, <<BannerLine, HopLine>>}

\* ipcMain.handle('node:trace'): an exec error resolves [], else one Hop per
\* matching line
nodeTrace(error, stdout) ==
    IF error THEN <<>>
    ELSE LET m == SelectSeq(stdout, LAMBDA l : l.matches)
         IN [k \in 1..Len(m) |->
                [number |-> m[k].number, ip |-> m[k].ip, name |-> "",
                 cur |-> m[k].ms, avg |-> m[k].ms, min |-> m[k].ms, pl |-> 0]]

\* what the awaited trace call can come back with: the handler's hop list, or
\* a rejection (invoke rejects; in the browser fallback JSON.parse throws)
TraceReplies ==
    {[rejected |-> FALSE, hops |-> nodeTrace(e, out)] :
        e \in BOOLEAN, out \in TracertOutputs}
        \cup {[rejected |-> TRUE, hops |-> <<>>]}

\* a trace button that stays enabled during a trace
NeverDisabled(n) == FALSE

\* disabled={node.isTracing} of the trace buttons (undefined is falsy)
TraceDisabled(n) == "isTracing" \in DOMAIN n /\ n.isTracing

\* handleTraceroute, before the try: { ...n, isTracing: true }
TraceBegin(ns, id) ==
    [k \in 1..Len(ns) |->
        IF ns[k].id = id THEN Spread(ns[k], "isTracing", TRUE) ELSE ns[k]]

\* an updater that stores the hops in a fresh node of the same id and address
TraceDoneFresh(ns, id, hops) ==
    [k \in 1..Len(ns) |->
        IF ns[k].id = id
        THEN Spread(Spread(NewNode(ns[k].id, ns[k].ip), "hops", hops),
                    "isTracing", FALSE)
        ELSE ns[k]]

\* handleTraceroute, end of the try: { ...n, hops, isTracing: false }
TraceDone(ns, id, hops) ==
    [k \in 1..Len(ns) |->
        IF ns[k].id = id
        THEN Spread(Spread(ns[k], "hops", hops), "isTracing", FALSE)
        ELSE ns[k]]

\* a catch block that leaves the registry as it is
TraceCaughtFlagKept(ns, id) == ns

\* handleTraceroute, catch: { ...n, isTracing: false }
TraceCaught(ns, id) ==
    [k \in 1..Len(ns) |->
        IF ns[k].id = id THEN Spread(ns[k], "isTracing", FALSE) ELSE ns[k]]

\* a click on an enabled trace button: handleTraceroute up to its await
handleTraceroute ==
    /\ variant = "legacy"
    /\ \E k \in 1..Len(nodes) :
          /\ ~TraceDisabled(nodes[k])
          /\ nodes' = TraceBegin(nodes, nodes[k].id)
          /\ traces' = Append(traces, nodes[k].id)
          /\ lastTrace' = [id |-> nodes[k].id, op |-> "start",
                           during |-> CyclesOver(nodes[k].id)]
    /\ nodesRef' = View(nodes')
    /\ UNCHANGED <<variant, settings, isUpdatingRef, cycles, now, nextId,
                   ticks, cycleCount, userOps, folded, probed, applied,
                   lastCommit, argument, returned>>

\* the awaited trace call of target id returns: the rest of handleTraceroute
TraceReturns(id) ==
    /\ variant = "legacy"
    /\ \E t \in 1..Len(traces), reply \in TraceReplies :
          /\ traces[t] = id
          /\ nodes' = IF reply.rejected THEN TraceCaught(nodes, id)
                       ELSE TraceDone(nodes, id, reply.hops)
          /\ traces' = RemoveAt(traces, t)
          /\ lastTrace' = [id |-> id,
                           op |-> IF reply.rejected \/ reply.hops = <<>>
                                  THEN "failed" ELSE "done",
                           during |-> CyclesOver(id)]
    /\ nodesRef' = View(nodes')
    /\ UNCHANGED <<variant, settings, isUpdatingRef, cycles, now, nextId,
                   ticks, cycleCount, userOps, folded, probed, applied,
                   lastCommit, argument, returned>>

\* Two targets in the registry, one tick and one rename / toggle / remove
\* still to come, and any number of traces.
InitTrace ==
    /\ variant \in {"guarded", "legacy"}
    /\ settings = DefaultSettings(variant)
    /\ nodes = handleAddIPs(<<>>, <<Addresses[1], Addresses[2]>>, 1)
    /\ nodesRef = View(nodes)
    /\ isUpdatingRef = FALSE
    /\ cycles = <<>>
    /\ now = 1
    /\ nextId = 2
    /\ ticks = MaxTicks - 1
    /\ cycleCount = 0
    /\ userOps = MaxUserOps - 1
    /\ folded = [id \in TargetIds |-> <<>>]
    /\ probed = [c \in 1..MaxTicks |-> {}]
    /\ applied = [c \in 1..MaxTicks |-> {}]
    /\ lastCommit = [cyc |-> 0, ids |-> {}, stale |-> {}, paused |-> {},
                     bystanders |-> {}]
    /\ traces = <<>>
    /\ lastTrace = NoTrace
    /\ argument = NoArgument
    /\ returned = NoReturn

NextTrace ==
    \/ Rename
    \/ Toggle
    \/ Remove
    \/ runMonitoringTick
    \/ ProbeResolves
    \/ updateNodeData
    \/ ProbeResolvesLegacy
    \/ ProbeRejectsLegacy
    \/ handleTraceroute
    \/ \E id \in TargetIds : TraceReturns(id)

SpecTrace == InitTrace /\ [][NextTrace]_vars

\* every awaited trace call returns or rejects
SpecTraceFair ==
    SpecTrace /\ \A id \in TargetIds : WF_vars(TraceReturns(id))


\* ------------------------------------------------------- network utilities
\* src/utils/networkUtils.ts.  A string is the sequence of its characters.

DigitChars == <<"0", "1", "2", "3", "4", "5", "6", "7", "8", "9">>

Digits == {DigitChars[i] : i \in 1..Len(DigitChars)}

Letters ==
    {"a", "b", "c", "d", "e", "f", "g", "h", "i", "j", "k", "l", "m",
     "n", "o", "p", "q", "r", "s", "t", "u", "v", "w", "x", "y", "z",
     "A", "B", "C", "D", "E", "F", "G", "H", "I", "J", "K", "L", "M",
     "N", "O", "P", "Q", "R", "S", "T", "U", "V", "W", "X", "Y", "Z"}

\* \s , ; : the separators of parseBulkInput
Separators == {" ", ",", ";"}

\* a JavaScript number: an integer or NaN; `undefined` is a value of its own
NaN == [nan |-> TRUE, v |-> 0]

Num(v) == [nan |-> FALSE, v |-> v]

undefined == [nan |-> TRUE, v |-> 1]

DigitValue(c) == CHOOSE d \in 0..9 : DigitChars[d + 1] = c

\* \d{1,3}
IsDigits(t) == Len(t) \in 1..3 /\ \A i \in 1..Len(t) : t[i] \in Digits

RECURSIVE Value(_)
\* the number a digit string denotes
Value(t) ==
    IF t = <<>> THEN 0
    ELSE Value(SubSeq(t, 1, Len(t) - 1)) * 10 + DigitValue(t[Len(t)])

RECURSIVE Decimal(_)
\* the decimal digits of a natural number
Decimal(n) ==
    IF n < 10 THEN <<DigitChars[n + 1]>>
    ELSE Decimal(n \div 10) \o <<DigitChars[(n % 10) + 1]>>

\* `${x}` of a number or of undefined
TemplateText(x) ==
    IF x = undefined THEN <<"u", "n", "d", "e", "f", "i", "n", "e", "d">>
    ELSE IF x.nan THEN <<"N", "a", "N">>
    ELSE IF x.v < 0 THEN <<"-">> \o Decimal(0 - x.v)
    ELSE Decimal(x.v)

\* the length of the longest prefix of t made of characters of `chars`
RECURSIVE PrefixIn(_, _)
PrefixIn(t, chars) ==
    IF t = <<>> \/ t[1] \notin chars THEN 0
    ELSE 1 + PrefixIn(Tail(t), chars)

\* parseInt(t): optional sign, then the longest run of digits
parseInt(t) ==
    LET neg == t # <<>> /\ t[1] = "-"
        body == IF neg THEN Tail(t) ELSE t
        n == PrefixIn(body, Digits)
    IN IF n = 0 THEN NaN
       ELSE Num(IF neg THEN 0 - Value(SubSeq(body, 1, n))
                ELSE Value(SubSeq(body, 1, n)))

\* Number(t): the whole string must be a numeral; the empty string is 0
Number(t) ==
    LET neg == t # <<>> /\ t[1] = "-"
        body == IF neg THEN Tail(t) ELSE t
    IN IF t = <<>> THEN Num(0)
       ELSE IF body # <<>> /\ PrefixIn(body, Digits) = Len(body)
            THEN Num(IF neg THEN 0 - Value(body) ELSE Value(body))
       ELSE NaN

RECURSIVE split(_, _)
\* t.split(sep) for a one-character separator
split(t, sep) ==
    LET n == PrefixIn(t, {t[i] : i \in 1..Len(t)} \ {sep})
    IN IF n = Len(t) THEN <<t>>
       ELSE <<SubSeq(t, 1, n)>> \o split(SubSeq(t, n + 2, Len(t)), sep)

\* t.trim()
trim(t) ==
    LET lead == PrefixIn(t, {" "})
        rest == SubSeq(t, lead + 1, Len(t))
        keep == CHOOSE k \in 0..Len(rest) :
                    /\ k > 0 => rest[k] # " "
                    /\ \A i \in (k + 1)..Len(rest) : rest[i] = " "
    IN SubSeq(rest, 1, keep)

\* t.includes(c)
includes(t, c) == \E i \in 1..Len(t) : t[i] = c

\* 25[0-5]|2[0-4][0-9]|[01]?[0-9][0-9]?
IsOctet(t) == IsDigits(t) /\ (Len(t) = 3 => Value(t) <= 255)

isValidIP(ip) ==
    LET p == split(trim(ip), ".")
    IN Len(p) = 4 /\ \A i \in 1..4 : IsOctet(p[i])

\* [a-zA-Z0-9]|[a-zA-Z0-9][a-zA-Z0-9\-]*[a-zA-Z0-9]
IsLabel(t) ==
    /\ t # <<>>
    /\ t[1] \in Letters \cup Digits
    /\ t[Len(t)] \in Letters \cup Digits
    /\ \A i \in 1..Len(t) : t[i] \in Letters \cup Digits \cup {"-"}

isValidHostname(host) ==
    LET p == split(trim(host), ".")
    IN \A i \in 1..Len(p) : IsLabel(p[i])

\* /^(\d{1,3}\.\d{1,3}\.\d{1,3}\.)(\d{1,3})-(\d{1,3})$/
RangePattern(t) ==
    LET d == split(t, "-")
    IN /\ Len(d) = 2
       /\ IsDigits(d[2])
       /\ LET p == split(d[1], ".")
          IN Len(p) = 4 /\ \A i \in 1..4 : IsDigits(p[i])

expandRange(range) ==
    LET t == trim(range)
    IN IF ~RangePattern(t) THEN <<>>
       ELSE LET d == split(t, "-")
                last == split(d[1], ".")[4]
                prefix == SubSeq(d[1], 1, Len(d[1]) - Len(last))
                start == parseInt(last)
                end == parseInt(d[2])
            IN IF start.nan \/ end.nan \/ start.v > 255 \/ end.v > 255
               THEN <<>>
               ELSE LET min == Min(start.v, end.v)
                        max == IF start.v > end.v THEN start.v ELSE end.v
                        safeMax == Min(max, min + 100)
                    IN [i \in 1..(safeMax - min + 1) |->
                            prefix \o Decimal(min + i - 1)]

expandSubnet(cidr) ==
    LET parts == split(cidr, "/")
    IN IF Len(parts) # 2 THEN (IF isValidIP(cidr) THEN <<cidr>> ELSE <<>>)
       ELSE LET baseIP == parts[1]
                mask == parseInt(parts[2])
            IN \* a NaN mask fails both comparisons and falls through
               IF ~mask.nan /\ (mask.v < 24 \/ mask.v > 32) THEN <<baseIP>>
               ELSE LET raw == split(baseIP, ".")
                        ipParts == [k \in 1..3 |->
                                       IF k <= Len(raw) THEN Number(raw[k])
                                       ELSE undefined]
                        end == IF mask.nan THEN NaN
                               ELSE Num(2 ^ (32 - mask.v) - 2)
                        \* i <= Math.min(NaN, 254) is false for every i
                        stop == IF end.nan THEN 0 ELSE Min(end.v, 254)
                    IN [i \in 1..stop |->
                            TemplateText(ipParts[1]) \o <<".">> \o
                            TemplateText(ipParts[2]) \o <<".">> \o
                            TemplateText(ipParts[3]) \o <<".">> \o Decimal(i)]

RECURSIVE rawList(_)
\* input.split(/[\s,;]+/).filter(i => i.length > 0)
rawList(input) ==
    LET skip == PrefixIn(input, Separators)
        rest == SubSeq(input, skip + 1, Len(input))
        n == PrefixIn(rest, {rest[i] : i \in 1..Len(rest)} \ Separators)
    IN IF rest = <<>> THEN <<>>
       ELSE <<SubSeq(rest, 1, n)>> \o rawList(SubSeq(rest, n + 1, Len(rest)))

\* what one item of rawList pushes onto `expanded`
expandItem(item) ==
    LET trimmed == trim(item)
    IN IF includes(trimmed, "/") THEN expandSubnet(trimmed)
       ELSE IF includes(trimmed, "-") /\ RangePattern(trimmed)
            THEN expandRange(trimmed)
       ELSE IF isValidIP(trimmed) \/ isValidHostname(trimmed)
            THEN <<trimmed>>
       ELSE <<>>

RECURSIVE expandAll(_)
expandAll(items) ==
    IF items = <<>> THEN <<>>
    ELSE expandItem(Head(items)) \o expandAll(Tail(items))

RECURSIVE ArrayFromSet(_)
\* Array.from(new Set(xs)): the first occurrence of every element, in order
ArrayFromSet(xs) ==
    IF Len(xs) <= 1 THEN xs
    ELSE LET half == Len(xs) \div 2
             front == ArrayFromSet(SubSeq(xs, 1, half))
             back == ArrayFromSet(SubSeq(xs, half + 1, Len(xs)))
             IsNew(x) == \A i \in 1..Len(front) : front[i] # x
         IN front \o SelectSeq(back, IsNew)

parseBulkInput(input) == ArrayFromSet(expandAll(rawList(input)))

\* strings typed into the target field or passed to the utilities
Dotted(a, b, c, d) == a \o <<".">> \o b \o <<".">> \o c \o <<".">> \o d

OctetTexts ==
    {Decimal(0), Decimal(1), <<"0", "1">>, Decimal(100), Decimal(101),
     Decimal(255), Decimal(256)}

RangeInputs ==
    {Dotted(a, Decimal(0), Decimal(0), x) \o <<"-">> \o y :
        a \in {Decimal(10), Decimal(999)}, x \in OctetTexts, y \in OctetTexts}

BaseTexts ==
    {Dotted(Decimal(10), Decimal(0), Decimal(0), Decimal(0)),
     Dotted(Decimal(10), Decimal(0), Decimal(0), Decimal(200)),
     Dotted(Decimal(999), Decimal(1), Decimal(1), Decimal(1)),
     Decimal(1) \o <<".">> \o Decimal(2),
     <<"a", "_", "b">>,
     <<>>}

MaskTexts ==
    {Decimal(8), Decimal(23), Decimal(24), Decimal(25), Decimal(30),
     Decimal(31), Decimal(32), Decimal(33), <<"x">>, <<>>}

SubnetInputs ==
    {b \o <<"/">> \o m : b \in BaseTexts, m \in MaskTexts}
      \cup {Decimal(1) \o <<"/">> \o Decimal(2) \o <<"/">> \o Decimal(3)}

ItemTexts ==
    {Dotted(Decimal(10), Decimal(0), Decimal(0), Decimal(1)),
     Dotted(Decimal(10), Decimal(0), Decimal(0), Decimal(300)),
     <<"h", "o", "s", "t", "-", "a">>,
     <<"a", "_", "b">>,
     Dotted(Decimal(10), Decimal(0), Decimal(0), Decimal(1))
        \o <<"-">> \o Decimal(2),
     Dotted(Decimal(10), Decimal(0), Decimal(0), Decimal(0))
        \o <<"/">> \o Decimal(30),
     Dotted(Decimal(10), Decimal(0), Decimal(0), Decimal(1))
        \o <<"/">> \o Decimal(8)}

BulkInputs ==
    ItemTexts \cup {a \o <<",", " ">> \o b : a \in ItemTexts, b \in ItemTexts}

UtilityInputs == RangeInputs \cup SubnetInputs \cup BulkInputs

InitUtils ==
    /\ variant \in {"guarded", "legacy"}
    /\ settings = DefaultSettings(variant)
    /\ nodes = <<>>
    /\ nodesRef = <<>>
    /\ isUpdatingRef = FALSE
    /\ cycles = <<>>
    /\ now = 1
    /\ nextId = 0
    /\ ticks = 0
    /\ cycleCount = 0
    /\ userOps = 0
    /\ folded = [id \in TargetIds |-> <<>>]
    /\ probed = [c \in 1..MaxTicks |-> {}]
    /\ applied = [c \in 1..MaxTicks |-> {}]
    /\ lastCommit = [cyc |-> 0, ids |-> {}, stale |-> {}, paused |-> {},
                     bystanders |-> {}]
    /\ traces = <<>>
    /\ lastTrace = NoTrace
    /\ argument \in UtilityInputs
    /\ returned = NoReturn

expandRangeReturns ==
    /\ returned = NoReturn
    /\ returned' = [fn |-> "expandRange", value |-> expandRange(argument)]
    /\ UNCHANGED <<variant, settings, nodes, nodesRef, isUpdatingRef, cycles,
                   now, nextId, ticks, cycleCount, userOps, folded, probed,
                   applied, lastCommit, traces, lastTrace, argument>>

expandSubnetReturns ==
    /\ returned = NoReturn
    /\ returned' = [fn |-> "expandSubnet", value |-> expandSubnet(argument)]
    /\ UNCHANGED <<variant, settings, nodes, nodesRef, isUpdatingRef, cycles,
                   now, nextId, ticks, cycleCount, userOps, folded, probed,
                   applied, lastCommit, traces, lastTrace, argument>>

parseBulkInputReturns ==
    /\ returned = NoReturn
    /\ returned' = [fn |-> "parseBulkInput",
                    value |-> parseBulkInput(argument)]
    /\ UNCHANGED <<variant, settings, nodes, nodesRef, isUpdatingRef, cycles,
                   now, nextId, ticks, cycleCount, userOps, folded, probed,
                   applied, lastCommit, traces, lastTrace, argument>>

NextUtils ==
    expandRangeReturns \/ expandSubnetReturns \/ parseBulkInputReturns

SpecUtils == InitUtils /\ [][NextUtils]_vars

\* ----------------------------------------------------- node:ping executor
\* ipcMain.handle('node:ping'): src/main.js in the guarded build, the handler
\* of src/unnamed/part_003 in the legacy build.

\* the characters a pattern letter matches, with and without the i flag
Cased(c, upper, ignoreCase) == IF ignoreCase THEN {c, upper} ELSE {c}

\* the positions where /time[=<](\d+)ms/ matches in stdout
TimeMatches(stdout, ignoreCase) ==
    {i \in 1..Len(stdout) :
        /\ i + 4 <= Len(stdout)
        /\ stdout[i] \in Cased("t", "T", ignoreCase)
        /\ stdout[i + 1] \in Cased("i", "I", ignoreCase)
        /\ stdout[i + 2] \in Cased("m", "M", ignoreCase)
        /\ stdout[i + 3] \in Cased("e", "E", ignoreCase)
        /\ stdout[i + 4] \in {"=", "<"}
        /\ LET n == PrefixIn(SubSeq(stdout, i + 5, Len(stdout)), Digits)
           IN /\ n >= 1
              /\ i + 6 + n <= Len(stdout)
              /\ stdout[i + 5 + n] \in Cased("m", "M", ignoreCase)
              /\ stdout[i + 6 + n] \in Cased("s", "S", ignoreCase)}

\* parseInt(match[1]) of the leftmost match
MatchedRtt(stdout, ignoreCase) ==
    LET i == CHOOSE m \in TimeMatches(stdout, ignoreCase) :
                 \A o \in TimeMatches(stdout, ignoreCase) : m <= o
        n == PrefixIn(SubSeq(stdout, i + 5, Len(stdout)), Digits)
    IN Value(SubSeq(stdout, i + 5, i + 4 + n))

\* the execFile callback of src/main.js: the error is not looked at
pingCallback(error, stdout) ==
    IF stdout = <<>> THEN [rtt |-> 0, status |-> "dead"]
    ELSE IF TimeMatches(stdout, TRUE) # {}
         THEN [rtt |-> MatchedRtt(stdout, TRUE), status |-> "alive"]
    ELSE [rtt |-> 0, status |-> "dead"]

\* the exec callback of src/unnamed/part_003
pingCallbackLegacy(error, stdout) ==
    IF error # "none" THEN [rtt |-> 0, status |-> "dead"]
    ELSE IF TimeMatches(stdout, FALSE) # {}
         THEN [rtt |-> MatchedRtt(stdout, FALSE), status |-> "alive"]
    ELSE [rtt |-> 0, status |-> "dead"]

\* how the ping process can end: exit 0, a non-zero exit, killed at the timeout
ProcessErrors(v) ==
    IF v = "guarded" THEN {"none", "exit", "timeout"} ELSE {"none", "exit"}

\* what the process has written when the callback runs
PingOutputs ==
    {<<>>,
     <<"t", "i", "m", "e", "=", "1", "5", "m", "s">>,
     <<"t", "i", "m", "e", "<", "1", "m", "s">>,
     <<"t", "i", "m", "e", "=", "0", "m", "s">>,
     <<"T", "I", "M", "E", "=", "7", "m", "s">>,
     <<"t", "i", "m", "e", "=", "2", "0", "0", "m", "s", " ", "T", "T", "L">>,
     <<"x", " ", "t", "i", "m", "e", "=", "4", "m", "s">>,
     <<"t", "i", "m", "e", "=", "m", "s">>,
     <<"t", "i", "m", "e", "=", "1", "5">>,
     <<"t", "i", "m", "e", "d", " ", "o", "u", "t">>,
     <<"t", "i", "m", "e", " ", "t", "i", "m", "e", "=", "9", "m", "s">>,
     <<"u", "n", "r", "e", "a", "c", "h", "a", "b", "l", "e">>}

InitPing ==
    /\ variant \in {"guarded", "legacy"}
    /\ settings = DefaultSettings(variant)
    /\ nodes = <<>>
    /\ nodesRef = <<>>
    /\ isUpdatingRef = FALSE
    /\ cycles = <<>>
    /\ now = 1
    /\ nextId = 0
    /\ ticks = 0
    /\ cycleCount = 0
    /\ userOps = 0
    /\ folded = [id \in TargetIds |-> <<>>]
    /\ probed = [c \in 1..MaxTicks |-> {}]
    /\ applied = [c \in 1..MaxTicks |-> {}]
    /\ lastCommit = [cyc |-> 0, ids |-> {}, stale |-> {}, paused |-> {},
                     bystanders |-> {}]
    /\ traces = <<>>
    /\ lastTrace = NoTrace
    /\ argument \in [error : ProcessErrors(variant), stdout : PingOutputs]
    /\ returned = NoReturn

\* the callback of the ping process runs and resolves the promise
PingResolves ==
    /\ returned = NoReturn
    /\ returned' =
          [fn |-> "node:ping",
           value |-> IF variant = "guarded"
                     THEN pingCallback(argument.error, argument.stdout)
                     ELSE pingCallbackLegacy(argument.error, argument.stdout)]
    /\ UNCHANGED <<variant, settings, nodes, nodesRef, isUpdatingRef, cycles,
                   now, nextId, ticks, cycleCount, userOps, folded, probed,
                   applied, lastCommit, traces, lastTrace, argument>>

NextPing == PingResolves

SpecPing == InitPing /\ [][NextPing]_vars

\* ------------------------------------------------------------------ claims
Last(s) == s[Len(s)]

HasNoEnd(e) == "endTime" \notin DOMAIN e

\* the ids that this step folds a result into
FoldedNow(id) ==
    /\ id \in Ids(nodes) \cap Ids(nodes')
    /\ folded'[id] # folded[id]

\* the number of dead results at the end of a sequence of results
RECURSIVE TrailingDead(_)
TrailingDead(rs) ==
    IF rs = <<>> \/ Last(rs).status # "dead" THEN 0
    ELSE 1 + TrailingDead(SubSeq(rs, 1, Len(rs) - 1))

\* C1: at most one monitoring cycle is in flight at any time: a tick that
\* fires while an earlier cycle still waits for probes starts no new cycle, so
\* no probe of cycle N+1 starts before cycle N has issued its commit.
C1_OneCycleInFlight == Len(cycles) <= 1

\* C2: a cycle's results reach the registry in one update: in every state,
\* of the targets of a cycle's snapshot that are still present either none or
\* all carry that cycle's result.
C2_CommitAllOrNothing ==
    \A c \in 1..MaxTicks :
        LET present == probed[c] \cap Ids(nodes)
        IN applied[c] \cap Ids(nodes) = {} \/ present \subseteq applied[c]

\* C3: sent = received + lost after every fold, and a fold adds exactly 1 to
\* sent and exactly 1 to lost (a failed result) or to received (any other).
C3_CountersBalance ==
    /\ [](\A k \in 1..Len(nodes) :
            nodes[k].sent = nodes[k].received + nodes[k].lost)
    /\ [][\A id \in TargetIds :
            FoldedNow(id) =>
                LET a == NodeOf(nodes, id)
                    b == NodeOf(nodes', id)
                IN /\ b.sent = a.sent + 1
                   /\ IF Last(folded'[id]).status = "dead"
                      THEN b.lost = a.lost + 1 /\ b.received = a.received
                      ELSE b.received = a.received + 1 /\ b.lost = a.lost]_vars

\* a target that has both received and lost probes
C3_Witness ==
    \E k \in 1..Len(nodes) :
        nodes[k].received >= 1 /\ nodes[k].lost >= 1 /\ nodes[k].sent >= 3

\* C4: with a constant cap C >= 1, after N folds into a fresh target the
\* history is the last min(N, C) folded results, oldest first, and is never
\* longer than C.
C4_HistoryIsLastCapResults ==
    \A k \in 1..Len(nodes) :
        LET all == folded[nodes[k].id]
            N == Len(all)
            C == maxDataPoints
            m == IF N <= C THEN N ELSE C
        IN C >= 1 =>
              /\ Len(nodes[k].history) = m
              /\ nodes[k].history = SubSeq(all, N - m + 1, N)
              /\ Len(nodes[k].history) <= C

\* the guarded build has folded more results than the cap holds
C4_Witness ==
    /\ variant = "guarded"
    /\ \E k \in 1..Len(nodes) :
          /\ Len(folded[nodes[k].id]) > maxDataPoints
          /\ Len(nodes[k].history) >= 2

\* C5: in every state each target's incident log holds at most one incident
\* without an end time.
C5_AtMostOneOpenIncident ==
    \A k \in 1..Len(nodes) :
        LET ev == nodes[k].downtimeEvents
        IN Cardinality({j \in 1..Len(ev) : HasNoEnd(ev[j])}) <= 1

\* a closed incident followed by an open one that two dead results extended
C5_Witness ==
    \E k \in 1..Len(nodes) :
        LET ev == nodes[k].downtimeEvents
        IN /\ Len(ev) = 2
           /\ ~HasNoEnd(ev[1])
           /\ HasNoEnd(ev[2])
           /\ ev[2].lostCount = 2

\* C6: folding a failed result adds 1 to the lost-count of the last incident
\* when that incident is open and leaves the log's length alone; otherwise it
\* appends one open incident with start = the result's timestamp and
\* lost-count 1. This holds at the commit of every probed target.
C6_FailedFoldExtendsOrOpens ==
    [][\A id \in TargetIds :
        (FoldedNow(id) /\ Last(folded'[id]).status = "dead") =>
            LET ev == NodeOf(nodes, id).downtimeEvents
                ev2 == NodeOf(nodes', id).downtimeEvents
                r == Last(folded'[id])
            IN IF Len(ev) > 0 /\ HasNoEnd(Last(ev))
               THEN /\ Len(ev2) = Len(ev)
                    /\ SubSeq(ev2, 1, Len(ev) - 1) = SubSeq(ev, 1, Len(ev) - 1)
                    /\ HasNoEnd(Last(ev2))
                    /\ Last(ev2).startTime = Last(ev).startTime
                    /\ Last(ev2).lostCount = Last(ev).lostCount + 1
               ELSE /\ Len(ev2) = Len(ev) + 1
                    /\ SubSeq(ev2, 1, Len(ev)) = ev
                    /\ HasNoEnd(Last(ev2))
                    /\ Last(ev2).startTime = r.timestamp
                    /\ Last(ev2).lostCount = 1]_vars

\* C7: folding a result that is not failed closes the last incident when it
\* is open (end = the result's timestamp, the incident stays, none is added)
\* and otherwise leaves the log alone; so a run of failed results followed by
\* a success leaves a closed last incident whose lost-count is the length of
\* the run.
C7_SuccessClosesOpenIncident ==
    [][\A id \in TargetIds :
        (FoldedNow(id) /\ Last(folded'[id]).status # "dead") =>
            LET ev == NodeOf(nodes, id).downtimeEvents
                ev2 == NodeOf(nodes', id).downtimeEvents
                r == Last(folded'[id])
                run == TrailingDead(folded[id])
            IN /\ IF Len(ev) > 0 /\ HasNoEnd(Last(ev))
                  THEN /\ Len(ev2) = Len(ev)
                       /\ SubSeq(ev2, 1, Len(ev) - 1) = SubSeq(ev, 1, Len(ev) - 1)
                       /\ ~HasNoEnd(Last(ev2))
                       /\ Last(ev2).endTime = r.timestamp
                       /\ Last(ev2).startTime = Last(ev).startTime
                       /\ Last(ev2).lostCount = Last(ev).lostCount
                  ELSE ev2 = ev
               /\ run > 0 =>
                     /\ Len(ev2) > 0
                     /\ ~HasNoEnd(Last(ev2))
                     /\ Last(ev2).lostCount = run]_vars

\* C8: after every fold, when the history holds an entry that is not failed,
\* minRtt and maxRtt are the minimum and the maximum round-trip time of the
\* entries that are not failed.
C8_MinMaxMatchHistory ==
    \A k \in 1..Len(nodes) :
        LET h == nodes[k].history
            rtts == {h[j].rtt : j \in {i \in 1..Len(h) : h[i].status # "dead"}}
        IN rtts # {} =>
              /\ \A r \in rtts : nodes[k].minRtt <= r /\ r <= nodes[k].maxRtt
              /\ nodes[k].minRtt \in rtts
              /\ nodes[k].maxRtt \in rtts

\* C9: a commit that carries a result for a target removed while the cycle
\* was in flight skips that id: the registry keeps exactly its ids and their
\* order, the removed id stays out, and every probed target still present is
\* folded once.
C9_CommitSkipsRemovedTarget ==
    [][lastCommit' # lastCommit =>
        /\ Len(nodes') = Len(nodes)
        /\ \A k \in 1..Len(nodes) : nodes'[k].id = nodes[k].id
        /\ \A id \in lastCommit'.stale : id \notin Ids(nodes')
        /\ \A id \in lastCommit'.ids \cap Ids(nodes) :
              /\ NodeOf(nodes', id).sent = NodeOf(nodes, id).sent + 1
              /\ folded'[id] # folded[id]]_vars

\* a commit found one probed target removed and updated another
C9_Witness ==
    /\ lastCommit.stale # {}
    /\ lastCommit.ids \ lastCommit.stale # {}
    /\ \E id \in lastCommit.ids \ lastCommit.stale :
          id \in Ids(nodes) /\ NodeOf(nodes, id).sent = 1

\* C10: toggle twice gives the registry back; remove, toggle and rename of an
\* id that is not present change nothing; remove twice is remove once.
C10_RegistryHandlersIdempotent ==
    \A id \in TargetIds :
        /\ onToggleMonitoring(onToggleMonitoring(nodes, id), id) = nodes
        /\ onRemove(onRemove(nodes, id), id) = onRemove(nodes, id)
        /\ id \notin Ids(nodes) =>
              /\ onRemove(nodes, id) = nodes
              /\ onToggleMonitoring(nodes, id) = nodes
              /\ \A name \in Names : onUpdateName(nodes, id, name) = nodes

\* a registry that holds a target and has had another one removed
C10_Witness ==
    /\ Len(nodes) >= 1
    /\ \E id \in TargetIds : id <= nextId /\ id \notin Ids(nodes)

\* C11: the guard is released on every way out of a cycle that set it: in no
\* reachable state is the guard set while no cycle is in flight, so a cycle
\* that has ended (its probes failed or not) never blocks a later tick.
C11_GuardSetOnlyDuringCycle == isUpdatingRef => cycles # <<>>

\* a second cycle has started after the first one ended and let go of the guard
C11_Witness ==
    /\ variant = "guarded"
    /\ lastCommit.cyc = 1
    /\ cycleCount = 2
    /\ isUpdatingRef

\* the registry holds at least one active target
SomeActive == \E k \in 1..Len(nodes) : nodes[k].isMonitoring

\* C12: a tick that fires while the guard is set or while no target is active
\* is dropped: it starts no probe, leaves the guard and the registry as they
\* are and is not made up for later; a cycle starts only at a tick that finds
\* the guard clear and an active target, one cycle per such tick at most.
C12_SkippedTickIsDropped ==
    [][/\ (ticks' # ticks /\ (isUpdatingRef \/ ~SomeActive)) =>
            UNCHANGED <<variant, settings, nodes, nodesRef, isUpdatingRef,
                        cycles, now, nextId, cycleCount, userOps, folded,
                        probed, applied, lastCommit>>
       /\ (cycleCount' # cycleCount \/ Len(cycles') > Len(cycles)) =>
            /\ ticks' = ticks + 1
            /\ cycleCount' = cycleCount + 1
            /\ Len(cycles') = Len(cycles) + 1
            /\ ~isUpdatingRef
            /\ SomeActive]_vars

\* a tick was dropped because the guard was set, and the cycle that held the
\* guard has ended since without a cycle starting in the dropped tick's place
C12_Witness ==
    /\ variant = "guarded"
    /\ ticks = 2
    /\ cycleCount = 1
    /\ lastCommit.cyc = 1
    /\ SomeActive
    /\ cycles = <<>>

\* the probes a cycle has issued so far, and those that have returned
Started(cy) == cy.outstanding \cup DOMAIN cy.resultsMap

BatchOf(k) == (k - 1) \div 5

\* C13: the active targets of a cycle are probed in consecutive batches of
\* five: at most five probes are outstanding, the probes of a batch are
\* issued together, and no probe of a batch is issued before every probe of
\* the batches before it has returned.
C13_BatchesOfFive ==
    \A c \in 1..Len(cycles) :
        LET cy == cycles[c]
            pos == 1..Len(cy.targets)
        IN /\ Cardinality(cy.outstanding) <= 5
           /\ \A k \in pos, j \in pos :
                 cy.targets[k] \in Started(cy) =>
                    /\ BatchOf(j) = BatchOf(k) => cy.targets[j] \in Started(cy)
                    /\ BatchOf(j) < BatchOf(k) =>
                          cy.targets[j] \in DOMAIN cy.resultsMap

\* the five probes of the first batch have returned and the sixth target's
\* probe, the second batch, is outstanding
C13_Witness ==
    \E c \in 1..Len(cycles) :
        /\ Len(cycles[c].targets) = 6
        /\ cycles[c].outstanding = {cycles[c].targets[6]}
        /\ Cardinality(DOMAIN cycles[c].resultsMap) = 5

\* the cycle numbered cyc is in flight in the list cs
InFlight(cs, cyc) == \E d \in 1..Len(cs) : cs[d].cyc = cyc

\* C14: a probe whose executor call errors counts as a failed result with
\* RTT 0 and never aborts the cycle: whenever a cycle ends, every target of
\* its snapshot that is still in the registry carries a result of that cycle.
C14_ProbeErrorNeverAbortsCycle ==
    [][/\ variant = "guarded" =>
            /\ getPingResult(Fault, now).status = "dead"
            /\ getPingResult(Fault, now).rtt = 0
       /\ \A c \in 1..Len(cycles) :
            ~InFlight(cycles', cycles[c].cyc) =>
                probed[cycles[c].cyc] \cap Ids(nodes') \subseteq
                    applied'[cycles[c].cyc]]_vars

\* the fields of a target that handlers outside the cycle write
Written(n) ==
    [f \in DOMAIN n \cap {"customName", "isMonitoring", "hops", "isTracing"}
        |-> n[f]]

\* C15: a rename, toggle or trace-field update applied between a cycle's
\* snapshot and its commit is not lost: the commit folds the cycle's result
\* into the target as the registry holds it, so after the commit the target
\* has the written label, active flag, hop list and trace flag together
\* with the extended history and counters.
C15_CommitKeepsConcurrentWrites ==
    [][\A id \in TargetIds :
          FoldedNow(id) =>
             LET n == NodeOf(nodes, id)
                 m == NodeOf(nodes', id)
             IN /\ Written(m) = Written(n)
                /\ Last(m.history) = Last(folded'[id])
                /\ m.sent = n.sent + 1]_vars

\* a commit has folded a result into a target that was paused and whose
\* trace was started after the cycle took its snapshot
C15_Witness ==
    /\ lastTrace.op = "start"
    /\ lastCommit.cyc \in lastTrace.during
    /\ lastTrace.id \in lastCommit.paused
    /\ lastTrace.id \in Ids(nodes)
    /\ LET n == NodeOf(nodes, lastTrace.id)
       IN /\ TraceDisabled(n)
          /\ ~n.isMonitoring
          /\ n.sent > 0

\* what the aggregation keeps of a target
Stats(n) ==
    [f \in {"history", "downtimeEvents", "minRtt", "maxRtt", "avgRtt",
            "curRtt", "sent", "received", "lost", "packetLoss"} |-> n[f]]

\* C16: a target that is paused when a cycle takes its snapshot is not in
\* that snapshot and so is not probed, and its history, counters, statistics
\* and incident log change only in the commit of a cycle that has it in its
\* snapshot: neither another cycle's commit nor pausing alters them.
C16_PausedTargetIsLeftAlone ==
    [][/\ cycleCount' # cycleCount =>
            \A k \in 1..Len(nodes) :
                ~nodes[k].isMonitoring => nodes[k].id \notin probed'[cycleCount']
       /\ \A id \in Ids(nodes) \cap Ids(nodes') :
            Stats(NodeOf(nodes', id)) # Stats(NodeOf(nodes, id)) =>
                /\ lastCommit' # lastCommit
                /\ id \in probed[lastCommit'.cyc]]_vars

\* the second cycle has committed while target 2, probed once by the first
\* cycle and paused since, was left out of it and kept its one result
C16_Witness ==
    /\ lastCommit.cyc = 2
    /\ lastCommit.ids = {1}
    /\ probed[2] = {1}
    /\ probed[1] = {1, 2}
    /\ Ids(nodes) = {1, 2}
    /\ ~NodeOf(nodes, 2).isMonitoring
    /\ NodeOf(nodes, 2).sent = 1
    /\ Len(NodeOf(nodes, 2).history) = 1
    /\ NodeOf(nodes, 1).sent = 2

\* the targets of the registry that are active
ActiveIds == {nodes[k].id : k \in {j \in 1..Len(nodes) : nodes[j].isMonitoring}}

\* C17: removing or pausing a target takes effect at the next selection of
\* targets: a cycle that starts takes exactly the targets that are in the
\* registry and active at that moment, so none removed or paused before its
\* tick; the remove or toggle itself leaves the cycles in flight and the guard
\* as they are, and a cycle in flight keeps the snapshot it took.
C17_RemoveAndPauseActAtNextCycle ==
    [][/\ cycleCount' # cycleCount => probed'[cycleCount'] = ActiveIds
       /\ userOps' # userOps => UNCHANGED <<cycles, isUpdatingRef, probed>>
       /\ \A c \in 1..Len(cycles), d \in 1..Len(cycles') :
            cycles[c].cyc = cycles'[d].cyc =>
                cycles[c].targets = cycles'[d].targets]_vars

\* target 2 was paused while the first cycle was in flight; that cycle went on
\* to commit a result for it, and the second cycle has started without it
C17_Witness ==
    /\ lastCommit.cyc = 1
    /\ lastCommit.paused = {2}
    /\ applied[1] = {1, 2}
    /\ cycleCount = 2
    /\ InFlight(cycles, 2)
    /\ probed[2] = {1}

\* a handleTraceroute call for target id is suspended at its await
Tracing(id) == \E t \in 1..Len(traces) : traces[t] = id

\* the trace-in-progress flag of target id is not set (or the target is gone)
FlagClear(id) == id \in Ids(nodes) => ~TraceDisabled(NodeOf(nodes, id))

\* C18: a trace sets the target's trace-in-progress flag when it starts, the
\* flag is cleared by the step in which the trace completes or fails, and,
\* given that every awaited trace call returns or rejects, a target with a
\* trace in flight gets to a state with the flag cleared.
C18_TraceFlagSetThenCleared ==
    /\ [][\A id \in Ids(nodes') :
             /\ Len(traces') > Len(traces) /\ lastTrace'.id = id =>
                    /\ "isTracing" \in DOMAIN NodeOf(nodes', id)
                    /\ NodeOf(nodes', id).isTracing
             /\ Len(traces') < Len(traces) /\ lastTrace'.id = id =>
                    /\ "isTracing" \in DOMAIN NodeOf(nodes', id)
                    /\ ~NodeOf(nodes', id).isTracing]_vars
    /\ \A id \in TargetIds : Tracing(id) ~> FlagClear(id)

\* a trace of a target that never had a hop list was rejected, and the catch
\* block has cleared the flag it had set
C18_Witness ==
    /\ lastTrace.op = "failed"
    /\ lastTrace.id \in Ids(nodes)
    /\ "isTracing" \in DOMAIN NodeOf(nodes, lastTrace.id)
    /\ ~NodeOf(nodes, lastTrace.id).isTracing
    /\ "hops" \notin DOMAIN NodeOf(nodes, lastTrace.id)
    /\ ~Tracing(lastTrace.id)

\* the handleTraceroute calls in flight for target id
TracesOf(id) == {t \in 1..Len(traces) : traces[t] = id}

\* C19: at most one trace per target is in flight: a trace starts only for a
\* target whose trace-in-progress flag is clear and that has no trace in
\* flight, so a request made while the flag is set starts no second call
\* and is not kept for later.
C19_OneTracePerTarget ==
    /\ [](\A id \in TargetIds : Cardinality(TracesOf(id)) <= 1)
    /\ [][Len(traces') > Len(traces) =>
            /\ Len(traces') = Len(traces) + 1
            /\ ~Tracing(lastTrace'.id)
            /\ FlagClear(lastTrace'.id)
            /\ lastTrace'.op = "start"]_vars

\* a second trace of a target is in flight after its first one completed
\* with a hop list; the flag is set again and the trace button disabled
C19_Witness ==
    \E id \in Ids(nodes) :
        /\ Cardinality(TracesOf(id)) = 1
        /\ TraceDisabled(NodeOf(nodes, id))
        /\ "hops" \in DOMAIN NodeOf(nodes, id)
        /\ NodeOf(nodes, id).hops # <<>>

\* the hop list a target shows: node.hops, none when the field is absent
HopsOf(n) == IF "hops" \in DOMAIN n THEN n.hops ELSE <<>>

\* C20: when a trace fails (the call errors or its output holds no hop),
\* the target's hop list after the failure is empty, also when the target
\* held the hops of an earlier successful trace.
C20_FailedTraceLeavesNoHops ==
    [][\A id \in Ids(nodes') :
          (/\ Len(traces') < Len(traces)
           /\ lastTrace'.id = id
           /\ lastTrace'.op = "failed") =>
                HopsOf(NodeOf(nodes', id)) = <<>>]_vars

\* everything of a target but its hop list and trace-in-progress flag
Untraced(n) == [f \in DOMAIN n \ {"hops", "isTracing"} |-> n[f]]

\* C21: a step in which a trace starts, completes or fails changes nothing
\* but the hop list and the trace-in-progress flag of its own target: the
\* history, counters, statistics, incident log, label and active flag of that
\* target, every other target and the order of the registry stay as they
\* are, whatever cycles are in flight.
C21_TraceTouchesOnlyTraceFields ==
    [][Len(traces') # Len(traces) =>
          /\ Len(nodes') = Len(nodes)
          /\ \A k \in 1..Len(nodes) :
                /\ Untraced(nodes'[k]) = Untraced(nodes[k])
                /\ nodes[k].id # lastTrace'.id => nodes'[k] = nodes[k]
          /\ UNCHANGED <<cycles, isUpdatingRef, folded, applied>>]_vars

\* a trace has completed with hops while a cycle over its target was in
\* flight, and the target holds the result of a commit next to the hops
C21_Witness ==
    /\ lastTrace.op = "done"
    /\ lastTrace.during # {}
    /\ lastTrace.id \in Ids(nodes)
    /\ LET n == NodeOf(nodes, lastTrace.id)
       IN /\ HopsOf(n) # <<>>
          /\ Len(n.history) > 0
          /\ n.sent > 0

\* C22: an add appends one new target per input address, in input order,
\* behind the targets already there, which it leaves as they are, whether or
\* not their addresses are among the new ones; each new target has a new id,
\* is active, has empty history and incident log, sent = received = lost = 0,
\* minRtt = +infinity and maxRtt = 0.
C22_AddAppendsFreshTargets ==
    [][nextId' # nextId =>
          \E targets \in AddressLists :
              /\ Len(nodes') = Len(nodes) + Len(targets)
              /\ SubSeq(nodes', 1, Len(nodes)) = nodes
              /\ \A k \in 1..Len(targets) :
                    LET n == nodes'[Len(nodes) + k]
                    IN /\ n.ip = targets[k]
                       /\ n.id \notin Ids(nodes)
                       /\ \A j \in 1..Len(targets) :
                             j # k => nodes'[Len(nodes) + j].id # n.id
                       /\ n.isMonitoring
                       /\ n.history = <<>> /\ n.downtimeEvents = <<>>
                       /\ n.sent = 0 /\ n.received = 0 /\ n.lost = 0
                       /\ n.minRtt = Infinity /\ n.maxRtt = 0]_vars

\* an address was added a second time: the registry holds two targets with
\* it, the older one with the result of a cycle, the newer one untouched
C22_Witness ==
    /\ Len(nodes) = 2
    /\ nodes[1].ip = nodes[2].ip
    /\ nodes[1].id # nodes[2].id
    /\ nodes[1].sent = 1
    /\ nodes[2].sent = 0 /\ nodes[2].history = <<>>

\* getPingResult of the running build
Classified(raw) ==
    IF variant = "guarded" THEN getPingResult(raw, now)
    ELSE getPingResultLegacy(raw, now)

\* C23: a probe is classified failed exactly when the executor reported the
\* target unreachable; a successful probe is degraded when its RTT is at or
\* above the warning threshold and healthy when it is below, for every
\* executor answer and for every result folded into a history.
C23_ClassifiedByThreshold ==
    /\ \A raw \in Outcomes(RTTs) \ {Fault} :
          Classified(raw).status = "dead" <=> raw.status = "dead"
    /\ \A k \in 1..Len(nodes) :
          \A j \in 1..Len(nodes[k].history) :
              LET r == nodes[k].history[j]
              IN r.status # "dead" =>
                    /\ r.status = "unstable" <=>
                            r.rtt >= settings.warningThreshold
                    /\ r.status = "alive" <=>
                            r.rtt < settings.warningThreshold

\* the dead results among a sequence of results
DeadIn(h) == SelectSeq(h, LAMBDA r : r.status = "dead")

\* C24: after every fold the packet-loss percentage is lost / sent x 100 over
\* the target's lifetime counters as they are after the fold
\* (packetLoss x sent = lost x 100), however many results the history has
\* dropped.
C24_PacketLossFromLifetimeCounters ==
    \A k \in 1..Len(nodes) :
        LET n == nodes[k]
        IN n.sent > 0 =>
              /\ n.packetLoss.den > 0
              /\ n.packetLoss.num * n.sent = n.lost * 100 * n.packetLoss.den

\* the history has dropped a dead result: more probes were lost than the
\* history still shows, and the percentage is above zero and below 100
C24_Witness ==
    \E k \in 1..Len(nodes) :
        LET n == nodes[k]
        IN /\ n.sent > Len(n.history)
           /\ n.lost > Len(DeadIn(n.history))
           /\ n.lost < n.sent
           /\ n.packetLoss.num > 0

\* C25: the history of every target, active or paused, is at most as long as
\* the configured cap in every state, also right after the retention window
\* or the interval was changed so that the cap shrank.
C25_HistoryWithinCurrentCap ==
    \A k \in 1..Len(nodes) : Len(nodes[k].history) <= maxDataPoints

\* the text after the last "." of a dotted string
LastOctet(t) == LET p == split(t, ".") IN p[Len(p)]

\* C26: expandRange on 'a.b.c.X-Y' with X and Y in 0..255 returns a.b.c.i for
\* i = min(X,Y), min(X,Y)+1, ... in increasing order, reaches max(X,Y) when
\* the span has at most 100 entries, and never returns more than 100 entries.
C26_ExpandRangeAtMostHundred ==
    (/\ returned.fn = "expandRange"
     /\ RangePattern(argument)
     /\ Value(LastOctet(split(argument, "-")[1])) <= 255
     /\ Value(split(argument, "-")[2]) <= 255) =>
        LET d == split(argument, "-")
            x == Value(LastOctet(d[1]))
            y == Value(d[2])
            lo == Min(x, y)
            hi == IF x > y THEN x ELSE y
            prefix == SubSeq(d[1], 1, Len(d[1]) - Len(LastOctet(d[1])))
            out == returned.value
        IN /\ Len(out) <= 100
           /\ \A i \in 1..Len(out) : out[i] = prefix \o Decimal(lo + i - 1)
           /\ hi - lo + 1 <= 100 => Len(out) = hi - lo + 1

\* C27: expandSubnet on 'a.b.c.d/m' with m in 24..32 returns between 1 and 254
\* addresses, each with the same top m bits as a.b.c.d.
C27_SubnetHostsInsideSubnet ==
    (/\ returned.fn = "expandSubnet"
     /\ Len(split(argument, "/")) = 2
     /\ isValidIP(split(argument, "/")[1])
     /\ IsDigits(split(argument, "/")[2])
     /\ Value(split(argument, "/")[2]) \in 24..32) =>
        LET base == split(split(argument, "/")[1], ".")
            m == Value(split(argument, "/")[2])
            out == returned.value
        IN /\ Len(out) \in 1..254
           /\ \A i \in 1..Len(out) :
                 /\ isValidIP(out[i])
                 /\ \A k \in 1..3 :
                       Value(split(out[i], ".")[k]) = Value(base[k])
                 /\ Value(LastOctet(out[i])) \div (2 ^ (32 - m))
                        = Value(base[4]) \div (2 ^ (32 - m))

\* C28: parseBulkInput returns a list without duplicates in which every
\* element is a valid dotted-quad address or a valid hostname.
C28_BulkInputYieldsValidTargets ==
    returned.fn = "parseBulkInput" =>
        LET out == returned.value
        IN /\ \A i \in 1..Len(out), j \in 1..Len(out) :
                 out[i] = out[j] => i = j
           /\ \A i \in 1..Len(out) :
                 isValidIP(out[i]) \/ isValidHostname(out[i])

\* C29: a node:ping call resolves with {alive, rtt >= 0} or {dead, rtt 0}, and
\* a process error, a timeout, empty output or output without a time field
\* resolve with {dead, rtt 0}.
C29_PingErrorsResolveDead ==
    returned.fn = "node:ping" =>
        /\ \/ returned.value.status = "alive" /\ returned.value.rtt >= 0
           \/ returned.value = [rtt |-> 0, status |-> "dead"]
        /\ (\/ argument.error # "none"
            \/ argument.stdout = <<>>
            \/ TimeMatches(argument.stdout, TRUE) = {}) =>
               returned.value = [rtt |-> 0, status |-> "dead"]

\* C30: a fold that leaves the history without a non-failed entry sets avgRtt
\* to 0 and keeps minRtt and maxRtt as they were before the fold.
C30_OutageKeepsMinMaxAndZeroesAvg ==
    [][\A k \in 1..Len(nodes) :
          (/\ Len(nodes') = Len(nodes)
           /\ nodes'[k].sent = nodes[k].sent + 1
           /\ Len(aliveHistory(nodes'[k].history)) = 0) =>
              /\ nodes'[k].avgRtt.num = 0
              /\ nodes'[k].minRtt = nodes[k].minRtt
              /\ nodes'[k].maxRtt = nodes[k].maxRtt]_vars

\* C31: the fold is deterministic: the target state after a fold is fixed by
\* the state before it, the folded result and the cap, whatever the random
\* source hands out during the fold, in every field and every incident.
C31_FoldIsDeterministic ==
    [][\A k \in 1..Len(nodes) :
          (/\ Len(nodes') = Len(nodes)
           /\ Len(folded'[nodes[k].id]) = Len(folded[nodes[k].id]) + 1) =>
              LET result == folded'[nodes[k].id][Len(folded'[nodes[k].id])]
              IN IF variant = "guarded"
                 THEN nodes'[k] = FoldGuarded(nodes[k], result, maxDataPoints)
                 ELSE \A eid \in EventIds :
                         nodes'[k] = FoldLegacy(nodes[k], result,
                                                maxDataPoints, eid)]_vars

\* target id is in the registry and monitored
ActiveNow(id) == id \in Ids(nodes) /\ NodeOf(nodes, id).isMonitoring

\* a cycle in flight has target id in its snapshot
InSnapshot(id) ==
    \E c \in 1..Len(cycles) :
        \E k \in 1..Len(cycles[c].targets) : cycles[c].targets[k] = id

\* C32: given that every probe call returns and the timer keeps firing,
\* every started cycle gets to its commit with the guard cleared, and an
\* active target that a cycle has in its snapshot, or that waits for a timer
\* tick still to come, has its sent counter raised unless it is paused or
\* removed first.
C32_CyclesCommitAndTargetsAdvance ==
    /\ \A c \in 1..MaxTicks :
          (\E d \in 1..Len(cycles) : cycles[d].cyc = c)
              ~> (lastCommit.cyc = c /\ ~isUpdatingRef)
    /\ \A id \in TargetIds : \A n \in 0..MaxTicks :
          (/\ ActiveNow(id)
           /\ NodeOf(nodes, id).sent = n
           /\ InSnapshot(id) \/ (cycles = <<>> /\ ticks < MaxTicks))
              ~> (~ActiveNow(id) \/ NodeOf(nodes, id).sent > n)

\* a target has been folded by two cycles, one after the other
C32_Witness ==
    /\ variant = "guarded"
    /\ cycleCount = 2
    /\ cycles = <<>>
    /\ ~isUpdatingRef
    /\ \E k \in 1..Len(nodes) : nodes[k].isMonitoring /\ nodes[k].sent = 2

\* the batches of a snapshot that hold its k-th target
BatchesWith(targets, k) ==
    {b \in 0..(Len(targets) \div batchSize) :
        targets[k] \in Batch(targets, 1 + b * batchSize)}

\* C33: in a cycle every target of the snapshot belongs to exactly one batch
\* and is probed once; the commit carries one result for each of them, adds
\* exactly 1 to sent and one entry to the history of each one still present,
\* and leaves the other targets' statistics alone; no counter moves by more
\* than 1 in a cycle.
C33_EachTargetProbedAndFoldedOnce ==
    /\ [](\A c \in 1..Len(cycles) :
            LET cy == cycles[c]
                pos == 1..Len(cy.targets)
            IN /\ \A j \in pos, k \in pos :
                     cy.targets[j] = cy.targets[k] => j = k
               /\ \A k \in pos : Cardinality(BatchesWith(cy.targets, k)) = 1
               /\ cy.outstanding \cap DOMAIN cy.resultsMap = {}
               /\ Started(cy) \subseteq {cy.targets[k] : k \in pos})
    /\ [][lastCommit' # lastCommit =>
            /\ lastCommit'.ids = probed[lastCommit'.cyc]
            /\ applied[lastCommit'.cyc] = {}
            /\ Len(nodes') = Len(nodes)
            /\ \A k \in 1..Len(nodes) :
                  LET n == nodes[k]
                      m == nodes'[k]
                  IN IF n.id \in lastCommit'.ids
                     THEN /\ m.sent = n.sent + 1
                          /\ m.received + m.lost = n.received + n.lost + 1
                          /\ m.received \in {n.received, n.received + 1}
                          /\ m.history # <<>>
                          /\ m.history =
                                SliceLast(Append(n.history, Last(m.history)),
                                          maxDataPoints)
                          /\ Last(m.history).timestamp \notin
                                {n.history[j].timestamp :
                                    j \in 1..Len(n.history)}
                     ELSE Stats(m) = Stats(n)]_vars

\* the cycle over six targets, probed in two batches, has committed and each
\* target has been counted once
C33_Witness ==
    /\ lastCommit.cyc = 1
    /\ cycles = <<>>
    /\ Len(nodes) = 6
    /\ \A k \in 1..Len(nodes) :
          nodes[k].sent = 1 /\ Len(nodes[k].history) = 1

\* the sum of lostCount over an incident log
RECURSIVE SumLostCount(_)
SumLostCount(ev) ==
    IF ev = <<>> THEN 0
    ELSE Last(ev).lostCount + SumLostCount(SubSeq(ev, 1, Len(ev) - 1))

\* C34: in every state each target's lifetime lost counter is the sum of
\* lostCount over the incidents of its downtime log, and every incident has
\* lostCount >= 1.
C34_LostIsSumOfIncidentCounts ==
    \A k \in 1..Len(nodes) :
        LET ev == nodes[k].downtimeEvents
        IN /\ nodes[k].lost = SumLostCount(ev)
           /\ \A j \in 1..Len(ev) : ev[j].lostCount >= 1

\* C35: for every target with a non-empty history an incident without an end
\* time exists exactly when the most recently folded result is failed, and
\* only the last incident of the log can be without an end time.
C35_OpenIncidentIffLastResultFailed ==
    \A k \in 1..Len(nodes) :
        LET ev == nodes[k].downtimeEvents
            h == nodes[k].history
        IN h # <<>> =>
              /\ (\E j \in 1..Len(ev) : HasNoEnd(ev[j]))
                    <=> Last(h).status = "dead"
              /\ \A j \in 1..(Len(ev) - 1) : ~HasNoEnd(ev[j])

\* C36: a commit keeps the registry's ids and their order and leaves every
\* target that is not in the cycle's snapshot exactly as it is, so a target
\* added while the cycle was in flight is present after the commit in the
\* state the add gave it.
C36_CommitLeavesLateTargetsAlone ==
    [][lastCommit' # lastCommit =>
          /\ Len(nodes') = Len(nodes)
          /\ \A k \in 1..Len(nodes) :
                /\ nodes'[k].id = nodes[k].id
                /\ nodes[k].id \notin probed[lastCommit'.cyc] =>
                      nodes'[k] = nodes[k]
          /\ lastCommit'.bystanders \subseteq Ids(nodes')]_vars

\* the first cycle, whose snapshot held target 1 only, has committed while
\* target 2 was in the registry, and target 2 is as the add made it
C36_Witness ==
    /\ variant = "guarded"
    /\ lastCommit.cyc = 1
    /\ probed[1] = {1}
    /\ 2 \in lastCommit.bystanders
    /\ Len(nodes) = 2
    /\ nodes[1].sent = 1
    /\ nodes[2] = NewNode(2, nodes[2].ip)

====
